---- MODULE Spec2Model ----
(***************************************************************************)
(* The chat hub of server/index.js: the users registry, the socket.io      *)
(* room membership of each socket, the Message collection, and the six     *)
(* event handlers of a connection.  A handler that awaits the store is     *)
(* split at each await: the part before it, the store operation, and the   *)
(* continuation are separate steps, so handlers of other events interleave *)
(* with it exactly where Node's event loop lets them.                      *)
(*                                                                         *)
(* Strings.  Usernames and room names are TLA+ strings.  A message body is *)
(* a run-length encoded string, a sequence of <<character, count>> runs,   *)
(* so that bodies of 500 and 501 characters are ordinary values.           *)
(*                                                                         *)
(* Object.values(users) is modelled as the set of its values: the order of *)
(* a user list is not modelled.  Date.now() is modelled as a counter that  *)
(* grows with every Message constructed, so timestamps are distinct.       *)
(* Message.find is taken to succeed; msg.save() may reject.                *)
(***************************************************************************)
EXTENDS Integers, Sequences, FiniteSets, TLC

VARIABLES
    status,   \* status[c]: "open" from the connection event on, then "closed"
    users,    \* the users object: socket id -> [id, username, room]
    rooms,    \* rooms[c]: the socket.io rooms socket c has joined
    joins,    \* 'join' handlers suspended at await Message.find
    chats,    \* 'chat message' handlers suspended at await msg.save()
    privs,    \* 'private message' handlers suspended at await msg.save()
    store,    \* the Message collection
    nextId,   \* number of userIds uuidv4 has generated
    clock,    \* number of Message documents constructed (source of timestamps)
    typing,   \* history: <<socket, room, sockets reached>> of each 'typing'
              \* signal that opened a run of signals no 'stop typing' has ended
    view,     \* view[c]: the chat state of client c's Chat component, as the
              \* timestamps of the room messages it holds
    timers,   \* timers[c]: the setTimeout(handleStopTyping, 1000) calls of
              \* client c that have not fired, oldest first
    last      \* the handler step taken last and what it emitted

vars ==
    <<status, users, rooms, joins, chats, privs, store, nextId, clock, typing,
      view, timers, last>>

----------------------------------------------------------------------------
(* Bounds of the model *)

MaxIds == 3
MaxMsgs == 2
MaxPending == 2

MaxTimers == 2

(* Program constants *)

MaxMessageLength == 500
HistoryLimit == 50

----------------------------------------------------------------------------
(* Inputs *)

Conns == {"c1", "c2"}

\* A client keeps the username of its first join for its later joins
\* (App.handleJoinRoom); the first client is "alice", the second sends a
\* username of one space.
JoinNames(c) == IF c = "c1" THEN {"", "alice"} ELSE {"", " "}

JoinRooms == {"", "general", "random"}

PayloadNames == {"alice"}
PayloadRooms == {"general", "random"}

Bodies ==
    { <<>>,
      << <<" ", 3>> >>,
      << <<"x", 500>> >>,
      << <<"x", 501>> >> }

PrivateBodies == { <<>>, << <<"x", 500>> >> }

----------------------------------------------------------------------------
(* Strings *)

RECURSIVE StrLen(_)
StrLen(s) == IF s = <<>> THEN 0 ELSE s[1][2] + StrLen(Tail(s))

IsSpace(ch) == ch = " "

RECURSIVE TrimStart(_)
TrimStart(s) ==
    IF s # <<>> /\ IsSpace(s[1][1]) THEN TrimStart(Tail(s)) ELSE s

RECURSIVE TrimEnd(_)
TrimEnd(s) ==
    IF s # <<>> /\ IsSpace(s[Len(s)][1])
    THEN TrimEnd(SubSeq(s, 1, Len(s) - 1))
    ELSE s

Trim(s) == TrimEnd(TrimStart(s))

\* !username, !room: only the empty string is falsy
Falsy(name) == name = ""

\* the check without trim(): a body of spaces passes
IsInvalidMessage_NoTrim(message) ==
    message = <<>> \/ StrLen(message) > MaxMessageLength

\* !message.trim() || message.length > 500
IsInvalidMessage(message) ==
    Trim(message) = <<>> \/ StrLen(message) > MaxMessageLength

----------------------------------------------------------------------------
(* Fan-out *)

Range(s) == { s[i] : i \in 1..Len(s) }

RemoveAt(s, i) == SubSeq(s, 1, i - 1) \o SubSeq(s, i + 1, Len(s))

\* io.to(room): the connected sockets that joined room
InRoom(rms, room) == { c \in Conns : room \in rms[c] }

\* io.to(room) where the code has socket.to(room)
Others_WithSender(rms, c, room) == InRoom(rms, room)

\* socket.to(room): the same, except the socket itself
Others(rms, c, room) == InRoom(rms, room) \ {c}

\* io.emit where the code has socket.emit
ToSocket_All(st, c) == { d \in Conns : st[d] = "open" }

\* socket.emit: the socket itself, while it is connected
ToSocket(st, c) == IF st[c] = "open" THEN {c} ELSE {}

Emit(ev, to, data) == [ev |-> ev, to |-> to, data |-> data]

\* Object.values(users).filter((u) => u.room === room)
UserList(us, room) == { us[c] : c \in { d \in DOMAIN us : us[d].room = room } }

Pending == Len(joins) + Len(chats) + Len(privs)

Step(op, c, emits) == [op |-> op, conn |-> c, emits |-> emits]

----------------------------------------------------------------------------
(* The Chat component of a client *)

\* socket.on('chat message'): setChat((prev) => [...prev, msg]);
\* socket.on('chat history'): setChat(messages)
OnEvent(chat, e) ==
    CASE e.ev = "chat message" -> Append(chat, e.data.timestamp)
      [] e.ev = "chat history" ->
            [j \in 1..Len(e.data) |-> e.data[j].timestamp]
      [] OTHER -> chat

\* the events of one handler step arrive at each socket in the order emitted
RECURSIVE Deliver(_, _)
Deliver(vw, emits) ==
    IF emits = << >> THEN vw
    ELSE Deliver([c \in Conns |-> IF c \in Head(emits).to
                                  THEN OnEvent(vw[c], Head(emits))
                                  ELSE vw[c]],
                 Tail(emits))

----------------------------------------------------------------------------
(* The Message collection *)

\* new Message({ username, message, room }): timestamp defaults to Date.now
NewMessage(username, message, room) ==
    [username |-> username, message |-> message, room |-> room,
     timestamp |-> clock + 1]

\* the schema's required fields: an empty string fails the validation of save()
Validates(doc) == doc.username # "" /\ doc.message # <<>>

RECURSIVE SortDesc(_)
SortDesc(S) ==
    IF S = {} THEN <<>>
    ELSE LET m == CHOOSE x \in S : \A y \in S : y.timestamp <= x.timestamp
         IN  <<m>> \o SortDesc(S \ {m})

\* the query without .limit(50)
Limit_None(s, n) == s

Limit(s, n) == SubSeq(s, 1, IF Len(s) < n THEN Len(s) ELSE n)

Reverse(s) == [i \in 1..Len(s) |-> s[Len(s) + 1 - i]]

\* Message.find({ room }).sort({ timestamp: -1 }).limit(50), then reverse()
History(room) ==
    Reverse(Limit(SortDesc({ m \in store : m.room = room }), HistoryLimit))

----------------------------------------------------------------------------
(* State after construction and the connection event of each socket *)

\* const users = {}
NoUsers == [d \in {} |-> {}]

Init ==
    /\ status = [c \in Conns |-> "open"]
    /\ users = NoUsers
    /\ rooms = [c \in Conns |-> {}]
    /\ joins = << >>
    /\ chats = << >>
    /\ privs = << >>
    /\ store = {}
    /\ nextId = 0
    /\ clock = 0
    /\ typing = {}
    /\ view = [c \in Conns |-> << >>]
    /\ timers = [c \in Conns |-> << >>]
    /\ last = Step("init", "c1", << >>)

----------------------------------------------------------------------------
(* socket.on('join') *)

\* users[socket.id] = { id: userId, username, room }
SetUser(c, u) ==
    [d \in DOMAIN users \cup {c} |-> IF d = c THEN u ELSE users[d]]

\* socket.join(room)
SocketJoin(c, room) == [rooms EXCEPT ![c] = rooms[c] \cup {room}]

\* the room of the session that line 43 overwrites ("" when there is none);
\* the handler does not keep it, the task records it as history
RoomOf(c) == IF c \in DOMAIN users THEN users[c].room ELSE ""

\* the handler up to await Message.find
JoinStart(c, username, room) ==
    /\ status[c] = "open"
    /\ IF Falsy(username) \/ Falsy(room)
       THEN /\ last' = Step("join", c,
                            << Emit("error", ToSocket(status, c),
                                    "Username and room are required") >>)
            /\ UNCHANGED <<status, users, rooms, joins, chats, privs, store,
                           nextId, clock, typing, view, timers>>
       ELSE /\ nextId < MaxIds
            /\ Pending < MaxPending
            /\ nextId' = nextId + 1
            /\ users' = SetUser(c, [id |-> nextId + 1, username |-> username,
                                    room |-> room])
            /\ rooms' = SocketJoin(c, room)
            /\ joins' = Append(joins, [conn |-> c, username |-> username,
                                       room |-> room, pc |-> "find",
                                       messages |-> << >>,
                                       vacated |-> RoomOf(c)])
            /\ last' = Step("join", c, << >>)
            /\ UNCHANGED <<status, chats, privs, store, clock, typing, view,
                           timers>>

\* Message.find({ room }).sort({ timestamp: -1 }).limit(50) is answered
JoinFind(i) ==
    /\ i \in 1..Len(joins)
    /\ joins[i].pc = "find"
    /\ joins' = [joins EXCEPT ![i].pc = "found",
                              ![i].messages = History(joins[i].room)]
    /\ last' = Step("join:find", joins[i].conn, << >>)
    /\ UNCHANGED <<status, users, rooms, chats, privs, store, nextId, clock,
                   typing, view, timers>>

\* the notice sent with io.to(room) instead of socket.to(room)
JoinEmits_NoticeToAll(t) ==
    << Emit("chat history", ToSocket(status, t.conn), t.messages),
       Emit("user joined", InRoom(rooms, t.room),
            <<t.username, "has joined the room">>),
       Emit("user list", InRoom(rooms, t.room), UserList(users, t.room)) >>

\* the handler after the await: chat history, user joined, user list
JoinEmits(t) ==
    << Emit("chat history", ToSocket(status, t.conn), t.messages),
       Emit("user joined", Others(rooms, t.conn, t.room),
            <<t.username, "has joined the room">>),
       Emit("user list", InRoom(rooms, t.room), UserList(users, t.room)) >>

JoinResume(i) ==
    /\ i \in 1..Len(joins)
    /\ joins[i].pc = "found"
    /\ joins' = RemoveAt(joins, i)
    /\ last' = Step("join:resume", joins[i].conn, JoinEmits(joins[i]))
    /\ view' = Deliver(view, JoinEmits(joins[i]))
    /\ UNCHANGED <<status, users, rooms, chats, privs, store, nextId, clock,
                   typing, timers>>

----------------------------------------------------------------------------
(* socket.on('disconnect') *)

\* the handler without delete users[socket.id]
DeleteUser_Keep(c) == users

\* delete users[socket.id]
DeleteUser(c) == [d \in DOMAIN users \ {c} |-> users[d]]

\* socket.io leaves every room of the socket before it fires 'disconnect'
LeaveAll(c) == [rooms EXCEPT ![c] = {}]

\* user left and user list are emitted before the session is deleted
DisconnectEmits(c, user) ==
    << Emit("user left", Others(LeaveAll(c), c, user.room),
            <<user.username, "has left the room">>),
       Emit("user list", InRoom(LeaveAll(c), user.room),
            UserList(users, user.room)) >>

Disconnect(c) ==
    /\ status[c] = "open"
    /\ status' = [status EXCEPT ![c] = "closed"]
    /\ rooms' = LeaveAll(c)
    /\ IF c \in DOMAIN users
       THEN /\ users' = DeleteUser(c)
            /\ last' = Step("disconnect", c, DisconnectEmits(c, users[c]))
       ELSE /\ last' = Step("disconnect", c, << >>)
            /\ UNCHANGED users
    /\ typing' = { p \in typing : p[1] # c }
    /\ UNCHANGED <<joins, chats, privs, store, nextId, clock, view, timers>>

----------------------------------------------------------------------------

(* socket.on('chat message') *)

\* the handler up to await msg.save()
ChatStart(c, message, room, username) ==
    /\ status[c] = "open"
    /\ IF IsInvalidMessage(message)
       THEN /\ last' = Step("chat message", c,
                            << Emit("error", ToSocket(status, c),
                                    "Invalid message") >>)
            /\ UNCHANGED <<status, users, rooms, joins, chats, privs, store,
                           nextId, clock, typing, view, timers>>
       ELSE /\ clock < MaxMsgs
            /\ Pending < MaxPending
            /\ clock' = clock + 1
            /\ chats' = Append(chats,
                               [conn |-> c, pc |-> "save",
                                msg |-> NewMessage(username, message, room)])
            /\ last' = Step("chat message", c, << >>)
            /\ UNCHANGED <<status, users, rooms, joins, privs, store, nextId,
                           typing, view, timers>>

\* msg.save() writes the document
ChatSave(i) ==
    /\ i \in 1..Len(chats)
    /\ chats[i].pc = "save"
    /\ Validates(chats[i].msg)
    /\ store' = store \cup {chats[i].msg}
    /\ chats' = [chats EXCEPT ![i].pc = "saved"]
    /\ last' = Step("chat message:save", chats[i].conn, << >>)
    /\ UNCHANGED <<status, users, rooms, joins, privs, nextId, clock, typing,
                   view, timers>>

\* msg.save() rejects: the handler ends at the await, nothing is emitted
ChatSaveFail(i) ==
    /\ i \in 1..Len(chats)
    /\ chats[i].pc = "save"
    /\ chats' = RemoveAt(chats, i)
    /\ last' = Step("chat message:reject", chats[i].conn, << >>)
    /\ UNCHANGED <<status, users, rooms, joins, privs, store, nextId, clock,
                   typing, view, timers>>

\* io.to(room).emit('chat message', { username, message, timestamp })
ChatEmits(t) ==
    << Emit("chat message", InRoom(rooms, t.msg.room),
            [username |-> t.msg.username, message |-> t.msg.message,
             timestamp |-> t.msg.timestamp]) >>

\* the handler after the await
ChatResume(i) ==
    /\ i \in 1..Len(chats)
    /\ chats[i].pc = "saved"
    /\ chats' = RemoveAt(chats, i)
    /\ last' = Step("chat message:resume", chats[i].conn, ChatEmits(chats[i]))
    /\ view' = Deliver(view, ChatEmits(chats[i]))
    /\ UNCHANGED <<status, users, rooms, joins, privs, store, nextId, clock,
                   typing, timers>>

----------------------------------------------------------------------------
(* socket.on('typing'), socket.on('stop typing') *)

\* history: socket c has signalled 'typing' for room and no 'stop typing' since
IsTyping(c, room) == \E p \in typing : p[1] = c /\ p[2] = room

\* socket.on('typing')
OnTyping(c, username, room) ==
    /\ status[c] = "open"
    /\ last' = Step("typing", c,
                    << Emit("typing", Others(rooms, c, room), username) >>)
    /\ typing' = IF IsTyping(c, room) THEN typing
                  ELSE typing \cup {<<c, room, Others(rooms, c, room)>>}
    /\ UNCHANGED <<status, users, rooms, joins, chats, privs, store, nextId,
                   clock, view>>

\* socket.on('stop typing')
OnStopTyping(c, room) ==
    /\ status[c] = "open"
    /\ last' = Step("stop typing", c,
                    << Emit("stop typing", Others(rooms, c, room), << >>) >>)
    /\ typing' = { p \in typing : ~(p[1] = c /\ p[2] = room) }
    /\ UNCHANGED <<status, users, rooms, joins, chats, privs, store, nextId,
                   clock, view>>

\* a 'typing' or 'stop typing' signal of a client whose timers stay as they are
Typing(c, username, room) ==
    OnTyping(c, username, room) /\ UNCHANGED timers

StopTyping(c, room) ==
    OnStopTyping(c, room) /\ UNCHANGED timers

----------------------------------------------------------------------------
(* The message input of the Chat component *)

\* onKeyDown={handleTyping}: the signal reaches the server; every timeout set
\* before it is from now on older than the latest 'typing' signal
KeyDown(c) ==
    /\ c \in DOMAIN users
    /\ OnTyping(c, users[c].username, users[c].room)
    /\ timers' = [timers EXCEPT ![c] = [j \in 1..Len(timers[c]) |-> "stale"]]

\* onKeyUp={() => setTimeout(handleStopTyping, 1000)}: a key is released
\* after it was pressed, so a 'typing' signal of the client is outstanding
KeyUp(c) ==
    /\ status[c] = "open"
    /\ c \in DOMAIN users
    /\ IsTyping(c, users[c].room)
    /\ Len(timers[c]) < MaxTimers
    /\ timers' = [timers EXCEPT ![c] = Append(timers[c], "fresh")]
    /\ UNCHANGED <<status, users, rooms, joins, chats, privs, store, nextId,
                   clock, typing, view, last>>

\* a timeout fires (no clearTimeout anywhere): handleStopTyping
Timeout(c) ==
    /\ c \in DOMAIN users
    /\ timers[c] # << >>
    /\ OnStopTyping(c, users[c].room)
    /\ timers' = [timers EXCEPT ![c] = Tail(timers[c])]

----------------------------------------------------------------------------
(* socket.on('private message') *)

\* find((u) => u.id = toUserId): an assignment, truthy for every user
Recipients_Assign(toUserId) == { users[d] : d \in DOMAIN users }

\* Object.values(users).find((u) => u.id === toUserId)
Recipients(toUserId) == { u \in { users[d] : d \in DOMAIN users } : u.id = toUserId }

\* `private-${toUserId}`
PrivateRoom(toUserId) == "private-" \o ToString(toUserId)

\* recipient.socketId: the stored session has no such field, so it is undefined,
\* and socket.to(undefined) addresses a room no socket has joined
SocketIdOf(recipient) == "undefined"

\* the handler up to await msg.save()
PrivStart(c, toUserId, message, username) ==
    /\ status[c] = "open"
    /\ IF Recipients(toUserId) = {}
       THEN /\ last' = Step("private message", c,
                            << Emit("error", ToSocket(status, c),
                                    "User not found") >>)
            /\ UNCHANGED <<status, users, rooms, joins, chats, privs, store,
                           nextId, clock, typing, view, timers>>
       ELSE /\ clock < MaxMsgs
            /\ Pending < MaxPending
            /\ clock' = clock + 1
            /\ \E recipient \in Recipients(toUserId) :
                 privs' = Append(privs,
                     [conn |-> c, pc |-> "save", recipient |-> recipient,
                      msg |-> NewMessage(username, message,
                                         PrivateRoom(toUserId))])
            /\ last' = Step("private message", c, << >>)
            /\ UNCHANGED <<status, users, rooms, joins, chats, store, nextId,
                           typing, view, timers>>

PrivSave(i) ==
    /\ i \in 1..Len(privs)
    /\ privs[i].pc = "save"
    /\ Validates(privs[i].msg)
    /\ store' = store \cup {privs[i].msg}
    /\ privs' = [privs EXCEPT ![i].pc = "saved"]
    /\ last' = Step("private message:save", privs[i].conn, << >>)
    /\ UNCHANGED <<status, users, rooms, joins, chats, nextId, clock, typing,
                   view, timers>>

PrivSaveFail(i) ==
    /\ i \in 1..Len(privs)
    /\ privs[i].pc = "save"
    /\ privs' = RemoveAt(privs, i)
    /\ last' = Step("private message:reject", privs[i].conn, << >>)
    /\ UNCHANGED <<status, users, rooms, joins, chats, store, nextId, clock,
                   typing, view, timers>>

\* socket.to(recipient.socketId).emit(...), then socket.emit(...)
PrivEmits(t) ==
    << Emit("private message", Others(rooms, t.conn, SocketIdOf(t.recipient)),
            [from |-> t.msg.username, message |-> t.msg.message,
             timestamp |-> t.msg.timestamp]),
       Emit("private message", ToSocket(status, t.conn),
            [to |-> t.recipient.username, message |-> t.msg.message,
             timestamp |-> t.msg.timestamp]) >>

PrivResume(i) ==
    /\ i \in 1..Len(privs)
    /\ privs[i].pc = "saved"
    /\ privs' = RemoveAt(privs, i)
    /\ last' = Step("private message:resume", privs[i].conn, PrivEmits(privs[i]))
    /\ UNCHANGED <<status, users, rooms, joins, chats, store, nextId, clock,
                   typing, view, timers>>

----------------------------------------------------------------------------

Next ==
    \/ \E c \in Conns, room \in JoinRooms :
          \E username \in JoinNames(c) : JoinStart(c, username, room)
    \/ \E i \in 1..MaxPending : JoinFind(i)
    \/ \E i \in 1..MaxPending : JoinResume(i)
    \/ \E c \in Conns, message \in Bodies, room \in PayloadRooms,
          username \in PayloadNames : ChatStart(c, message, room, username)
    \/ \E i \in 1..MaxPending : ChatSave(i)
    \/ \E i \in 1..MaxPending : ChatSaveFail(i)
    \/ \E i \in 1..MaxPending : ChatResume(i)
    \/ \E c \in Conns, username \in PayloadNames, room \in PayloadRooms :
          Typing(c, username, room)
    \/ \E c \in Conns, room \in PayloadRooms : StopTyping(c, room)
    \/ \E c \in Conns, toUserId \in 1..MaxIds, message \in PrivateBodies,
          username \in PayloadNames : PrivStart(c, toUserId, message, username)
    \/ \E i \in 1..MaxPending : PrivSave(i)
    \/ \E i \in 1..MaxPending : PrivSaveFail(i)
    \/ \E i \in 1..MaxPending : PrivResume(i)
    \/ \E c \in Conns : Disconnect(c)

Spec == Init /\ [][Next]_vars

\* The handlers that write users, rooms, status or joins: every other handler
\* leaves these four unchanged, and no presence event reads anything else.
NextPresence ==
    \/ \E c \in Conns, room \in JoinRooms :
          \E username \in JoinNames(c) : JoinStart(c, username, room)
    \/ \E i \in 1..MaxPending : JoinFind(i)
    \/ \E i \in 1..MaxPending : JoinResume(i)
    \/ \E c \in Conns : Disconnect(c)

SpecPresence == Init /\ [][NextPresence]_vars

\* The 'chat message' handler with the one handler that closes its socket: the
\* handler's validation reads nothing but its payload.
NextChat ==
    \/ \E c \in Conns, message \in Bodies, room \in PayloadRooms,
          username \in PayloadNames : ChatStart(c, message, room, username)
    \/ \E i \in 1..MaxPending : ChatSave(i)
    \/ \E i \in 1..MaxPending : ChatSaveFail(i)
    \/ \E i \in 1..MaxPending : ChatResume(i)
    \/ \E c \in Conns : Disconnect(c)

SpecChat == Init /\ [][NextChat]_vars

\* The 'join', 'chat message' and 'disconnect' handlers: a room with members
\* and messages on their way to it.
NextRoom ==
    \/ \E c \in Conns, room \in JoinRooms :
          \E username \in JoinNames(c) : JoinStart(c, username, room)
    \/ \E i \in 1..MaxPending : JoinFind(i)
    \/ \E i \in 1..MaxPending : JoinResume(i)
    \/ \E c \in Conns, message \in Bodies, room \in PayloadRooms,
          username \in PayloadNames : ChatStart(c, message, room, username)
    \/ \E i \in 1..MaxPending : ChatSave(i)
    \/ \E i \in 1..MaxPending : ChatSaveFail(i)
    \/ \E i \in 1..MaxPending : ChatResume(i)
    \/ \E c \in Conns : Disconnect(c)

SpecRoom == Init /\ [][NextRoom]_vars

\* A room name is any string the client sends: the names a client joins here
\* include the tag under which line 87 stores the messages for userId 1.
TagRooms == {"general", PrivateRoom(1)}

\* The 'join', 'private message' and 'disconnect' handlers.
NextPrivate ==
    \/ \E c \in Conns, room \in TagRooms :
          \E username \in JoinNames(c) : JoinStart(c, username, room)
    \/ \E i \in 1..MaxPending : JoinFind(i)
    \/ \E i \in 1..MaxPending : JoinResume(i)
    \/ \E c \in Conns, toUserId \in 1..MaxIds, message \in PrivateBodies,
          username \in PayloadNames : PrivStart(c, toUserId, message, username)
    \/ \E i \in 1..MaxPending : PrivSave(i)
    \/ \E i \in 1..MaxPending : PrivSaveFail(i)
    \/ \E i \in 1..MaxPending : PrivResume(i)
    \/ \E c \in Conns : Disconnect(c)

SpecPrivate == Init /\ [][NextPrivate]_vars

\* The lookup of line 82 reads the userIds of the registry and nothing else:
\* the handlers that write the registry, joining one room, with the 'private
\* message' handler up to its await.
NextLookup ==
    \/ \E c \in Conns, room \in {"general"} :
          \E username \in JoinNames(c) : JoinStart(c, username, room)
    \/ \E i \in 1..MaxPending : JoinFind(i)
    \/ \E i \in 1..MaxPending : JoinResume(i)
    \/ \E c \in Conns, toUserId \in 1..MaxIds, message \in PrivateBodies,
          username \in PayloadNames : PrivStart(c, toUserId, message, username)
    \/ \E c \in Conns : Disconnect(c)

SpecLookup == Init /\ [][NextLookup]_vars


\* The 'typing' and 'stop typing' handlers read the socket.io rooms and
\* nothing else: they run here with the handlers that write the rooms, and a
\* 'join' has joined its room before the await at which it stays suspended.
NextTyping ==
    \/ \E c \in Conns, room \in JoinRooms :
          \E username \in JoinNames(c) : JoinStart(c, username, room)
    \/ \E c \in Conns, username \in PayloadNames, room \in PayloadRooms :
          Typing(c, username, room)
    \/ \E c \in Conns, room \in PayloadRooms : StopTyping(c, room)
    \/ \E c \in Conns : Disconnect(c)

SpecTyping == Init /\ [][NextTyping]_vars

\* The collection outlives the process (mongoose.connect, line 25): a server
\* starts on the messages earlier runs saved.  Archive(n) is n messages of room
\* "general", with one older and one newer message of room "random".
ArchiveSizes == {0, 3, 50, 51}

Archive(n) ==
    { [username |-> "alice", message |-> << <<"x", 500>> >>,
       room |-> "general", timestamp |-> k + 1] : k \in 1..n }
    \cup { [username |-> "alice", message |-> << <<"x", 500>> >>,
            room |-> "random", timestamp |-> k] : k \in {1, n + 2} }

InitHistory ==
    /\ status = [c \in Conns |-> "open"]
    /\ users = NoUsers
    /\ rooms = [c \in Conns |-> {}]
    /\ joins = << >>
    /\ chats = << >>
    /\ privs = << >>
    /\ \E n \in ArchiveSizes : store = Archive(n) /\ clock = n + 2
    /\ nextId = 0
    /\ typing = {}
    /\ view = [c \in Conns |-> << >>]
    /\ timers = [c \in Conns |-> << >>]
    /\ last = Step("init", "c1", << >>)

\* The query of line 47 reads the collection and the room of its join: the
\* joins and the disconnect of one socket over a collection that holds messages.
NextHistory ==
    \/ \E room \in JoinRooms, username \in JoinNames("c1") :
          JoinStart("c1", username, room)
    \/ \E i \in 1..MaxPending : JoinFind(i)
    \/ \E i \in 1..MaxPending : JoinResume(i)
    \/ Disconnect("c1")

SpecHistory == InitHistory /\ [][NextHistory]_vars

\* A client in a room at its message input: joins, key presses and releases,
\* the timeouts they set, and disconnects.
NextKeys ==
    \/ \E c \in Conns, room \in JoinRooms :
          \E username \in JoinNames(c) : JoinStart(c, username, room)
    \/ \E c \in Conns : KeyDown(c)
    \/ \E c \in Conns : KeyUp(c)
    \/ \E c \in Conns : Timeout(c)
    \/ \E c \in Conns : Disconnect(c)

SpecKeys == Init /\ [][NextKeys]_vars

\* A socket that disconnects while its own handlers are suspended: the joins
\* and the messages of one socket in one room, with the store operations they
\* await.  users[socket.id] is written by the handlers of that socket only.
NextCleanup ==
    \/ \E room \in {"general"}, username \in JoinNames("c1") :
          JoinStart("c1", username, room)
    \/ \E i \in 1..MaxPending : JoinFind(i)
    \/ \E i \in 1..MaxPending : JoinResume(i)
    \/ \E message \in Bodies, room \in {"general"},
          username \in PayloadNames : ChatStart("c1", message, room, username)
    \/ \E i \in 1..MaxPending : ChatSave(i)
    \/ \E i \in 1..MaxPending : ChatSaveFail(i)
    \/ \E i \in 1..MaxPending : ChatResume(i)
    \/ Disconnect("c1")

SpecCleanup == Init /\ [][NextCleanup]_vars

\* Every error is emitted before the first await of its handler: the 'join',
\* 'chat message' and 'private message' handlers up to their await, and the
\* 'disconnect' handler.
NextErrors ==
    \/ \E c \in Conns, room \in JoinRooms :
          \E username \in JoinNames(c) : JoinStart(c, username, room)
    \/ \E c \in Conns, message \in Bodies, room \in PayloadRooms,
          username \in PayloadNames : ChatStart(c, message, room, username)
    \/ \E c \in Conns, toUserId \in 1..MaxIds, message \in PrivateBodies,
          username \in PayloadNames : PrivStart(c, toUserId, message, username)
    \/ \E c \in Conns : Disconnect(c)

SpecErrors == Init /\ [][NextErrors]_vars

----------------------------------------------------------------------------
(* Vocabulary of the properties *)

Rooms == JoinRooms \ {""}

\* the connections whose session's currentRoom is room
Members(room) == { c \in DOMAIN users : users[c].room = room }

\* String.prototype.trim on the names and rooms of the model: the name of one
\* space trims to the empty string, the others have no surrounding whitespace
TrimName(name) == IF name = " " THEN "" ELSE name

IsError(emits, c) ==
    /\ Len(emits) = 1
    /\ emits[1].ev = "error"
    /\ emits[1].to = {c}

Identity(u) == [userId |-> u.id, displayName |-> u.username]

----------------------------------------------------------------------------
(* Properties *)

\* C1: for every room r, the connections that receive the broadcasts addressed
\* to r are exactly the connections whose session's currentRoom is r.
C1_RoomIndexIsPartition ==
    \A room \in Rooms : InRoom(rooms, room) = Members(room)

\* C2: a room message posted by a connection with a session is delivered to
\* exactly the connections whose session is in the poster's room.
C2_DeliveredToPostersRoom ==
    (last.op = "chat message:resume" /\ last.conn \in DOMAIN users)
        => last.emits[1].to = Members(users[last.conn].room)

\* C3: a chat message accepted from a connection with a session carries the
\* username and the room of that session, whatever the payload names.
C3_MessageTaggedFromSession ==
    (/\ last.op = "chat message"
     /\ last.emits = << >>
     /\ last.conn \in DOMAIN users)
        => LET msg == chats[Len(chats)].msg IN
           /\ msg.username = users[last.conn].username
           /\ msg.room = users[last.conn].room

\* C4: a chat message from a connection without a session is answered with an
\* error to that connection and starts no persistence and no broadcast.
C4_NotJoinedRejected ==
    (last.op = "chat message" /\ last.conn \notin DOMAIN users)
        => IsError(last.emits, last.conn)

\* C5: a chat message whose body is empty after trimming or longer than 500
\* characters gets an error to its sender only, and nothing is persisted, queued
\* or broadcast for it; any other body is accepted without an error and goes on
\* to be saved; no refused body is ever in flight, stored for a room or broadcast.
C5_InvalidMessageRefused ==
    [][ LET BodyRefused(b) == Trim(b) = <<>> \/ StrLen(b) > 500 IN
        \A c \in Conns, message \in Bodies, room \in PayloadRooms,
           username \in PayloadNames :
          ChatStart(c, message, room, username) =>
             /\ BodyRefused(message) =>
                  /\ IsError(last'.emits, c)
                  /\ store' = store
                  /\ chats' = chats
             /\ ~BodyRefused(message) =>
                  /\ last'.emits = << >>
                  /\ Len(chats') = Len(chats) + 1
                  /\ chats'[Len(chats')].msg.message = message
                  /\ chats'[Len(chats')].pc = "save"
             /\ \A t \in Range(chats') : ~BodyRefused(t.msg.message)
             /\ \A m \in store' : m.room \in PayloadRooms => ~BodyRefused(m.message)
      ]_vars

\* C5 witness: a refused body has been answered while a valid one is in flight.
C5_Witness ==
    /\ last.op = "chat message"
    /\ IsError(last.emits, last.conn)
    /\ chats # << >>

\* C6: a join on a connection that has a session keeps the session's userId.
C6_UserIdStableAcrossSwitch ==
    [][ \A c \in Conns :
          (c \in DOMAIN users /\ c \in DOMAIN users')
             => users'[c].id = users[c].id ]_vars

\* C7: a join whose username or room is empty after trimming is answered with
\* an error and creates or changes no session, room membership or broadcast.
C7_BlankJoinRefused ==
    [][ \A c \in Conns, room \in JoinRooms : \A username \in JoinNames(c) :
          (/\ JoinStart(c, username, room)
           /\ (TrimName(username) = "" \/ TrimName(room) = ""))
             => /\ IsError(last'.emits, c)
                /\ users' = users
                /\ rooms' = rooms
                /\ joins' = joins ]_vars

\* C8: the user list delivered to the remaining members when a connection with
\* a session disconnects is computed after the removal: every entry of it is a
\* session of the registry, so it does not hold the departed user.
C8_LeaveListAfterRemoval ==
    (/\ last.op = "disconnect"
     /\ last.emits # << >>)
        => /\ last.emits[1].ev = "user left"
           /\ last.emits[2].ev = "user list"
           /\ last.emits[2].to # {} =>
                last.emits[2].data \subseteq { users[d] : d \in DOMAIN users }

\* C9: when a join into room r completes, the user list goes to every
\* connection whose session is in r (the joiner included, while its session is
\* in r) and holds exactly the userId and displayName of those sessions; the
\* joined notice goes to every other one of them and never to the joiner.
C9_JoinPresence ==
    [][ \A i \in 1..MaxPending :
          JoinResume(i) =>
             LET t == joins[i]
                 notice == last'.emits[2]
                 list == last'.emits[3]
             IN  /\ list.ev = "user list"
                 /\ Members(t.room) \subseteq list.to
                 /\ { Identity(u) : u \in list.data }
                      = { Identity(users[d]) : d \in Members(t.room) }
                 /\ notice.ev = "user joined"
                 /\ Members(t.room) \ {t.conn} \subseteq notice.to
                 /\ t.conn \notin notice.to
      ]_vars

\* C9 witness: a join has completed in a room with another member: the list
\* reached the joiner and the other member, the notice the other member.
C9_Witness ==
    /\ last.op = "join:resume"
    /\ last.conn \in DOMAIN users
    /\ last.conn \in last.emits[3].to
    /\ Cardinality(Members(users[last.conn].room)) >= 2
    /\ Cardinality(last.emits[3].data) >= 2
    /\ last.emits[2].to # {}

\* C10: when a join that switches a connection from room r1 to room r2
\* completes, the members remaining in r1 have been sent a user list of r1.
C10_VacatedRoomRefreshed ==
    [][ \A i \in 1..MaxPending :
          (/\ JoinResume(i)
           /\ joins[i].vacated \notin {"", joins[i].room}
           /\ Members(joins[i].vacated) # {})
             => \E k \in 1..Len(last'.emits) :
                   /\ last'.emits[k].ev = "user list"
                   /\ Members(joins[i].vacated) \subseteq last'.emits[k].to
                   /\ last'.emits[k].data = UserList(users, joins[i].vacated)
      ]_vars

\* C11: when a private message addressed to the userId of a live session of
\* another connection is sent after its save, the 'private message' event
\* reaches exactly the connection whose session holds that userId at that
\* moment, and the confirmation reaches exactly the sender.
C11_PrivateReachesHolder ==
    [][ \A i \in 1..MaxPending :
          LET holders == { d \in DOMAIN users :
                             users[d].id = privs[i].recipient.id }
          IN  (PrivResume(i) /\ holders # {} /\ holders # {privs[i].conn})
                 => /\ Len(last'.emits) = 2
                    /\ last'.emits[1].ev = "private message"
                    /\ last'.emits[1].to = holders
                    /\ last'.emits[2].ev = "private message"
                    /\ last'.emits[2].to = ToSocket(status, privs[i].conn) ]_vars

\* C12: a 'private message' addressed to a userId that no session of the
\* registry holds is answered with one error to the sender alone; no 'private
\* message' event is emitted, no handler is left to save a record and the
\* collection is unchanged.
C12_UnknownRecipientRefused ==
    [][ \A c \in Conns, toUserId \in 1..MaxIds, message \in PrivateBodies,
           username \in PayloadNames :
          (/\ PrivStart(c, toUserId, message, username)
           /\ \A d \in DOMAIN users : users[d].id # toUserId)
             => /\ IsError(last'.emits, c)
                /\ privs' = privs
                /\ store' = store ]_vars

\* an error answered while a session is live and a userId issued earlier is no
\* longer held: it was replaced by a later join or its connection disconnected
C12_Witness ==
    /\ last.op = "private message"
    /\ IsError(last.emits, last.conn)
    /\ DOMAIN users # {}
    /\ nextId > Cardinality(DOMAIN users)

\* C13: when two 'chat message' broadcasts of one room follow one another and
\* reach a common connection, the message broadcast first was accepted first
\* (timestamps are taken at acceptance), whatever the order of the saves.
C13_DeliveredInAcceptanceOrder ==
    [][ \A i \in 1..MaxPending :
          (/\ ChatResume(i)
           /\ last.op = "chat message:resume"
           /\ last.emits[1].to \cap last'.emits[1].to # {}
           /\ \E m \in store : /\ m.timestamp = last.emits[1].data.timestamp
                               /\ m.room = chats[i].msg.room)
             => last.emits[1].data.timestamp < chats[i].msg.timestamp ]_vars

\* C14: when the save of a valid message of a room with members is rejected,
\* the step still emits the 'chat message' to every member of the room and an
\* error to the sender.
C14_StoreFailureStillBroadcasts ==
    [][ \A i \in 1..MaxPending :
          (/\ ChatSaveFail(i)
           /\ Validates(chats[i].msg)
           /\ Members(chats[i].msg.room) # {})
             => /\ \E k \in 1..Len(last'.emits) :
                      /\ last'.emits[k].ev = "chat message"
                      /\ Members(chats[i].msg.room) \subseteq last'.emits[k].to
                /\ \E k \in 1..Len(last'.emits) :
                      /\ last'.emits[k].ev = "error"
                      /\ last'.emits[k].to = ToSocket(status, chats[i].conn) ]_vars

\* C15: a 'typing' signal of a member of a room who has signalled 'typing' for
\* that room with no 'stop typing' since, the event of that first signal having
\* reached a connection that is still in the room, emits no event to anyone.
C15_RepeatedTypingSilent ==
    [][ \A c \in Conns, username \in PayloadNames, room \in PayloadRooms :
          (/\ Typing(c, username, room)
           /\ c \in Members(room)
           /\ \E p \in typing : /\ p[1] = c /\ p[2] = room
                                /\ p[3] \cap Others(rooms, c, room) # {})
             => \A k \in 1..Len(last'.emits) : last'.emits[k].to = {} ]_vars

\* C16: when a connection that has signalled 'typing' for its room, with no
\* 'stop typing' since, disconnects, the other members of the room are sent a
\* 'stop typing' event.
C16_TypingClearedOnDisconnect ==
    [][ \A c \in Conns :
          (/\ Disconnect(c)
           /\ c \in DOMAIN users
           /\ IsTyping(c, users[c].room)
           /\ Members(users[c].room) \ {c} # {})
             => \E k \in 1..Len(last'.emits) :
                   /\ last'.emits[k].ev = "stop typing"
                   /\ Members(users[c].room) \ {c} \subseteq last'.emits[k].to ]_vars

\* C17: a 'typing' signal of a connection not yet typing in the room emits
\* exactly one 'typing' event, and the 'stop typing' signal that follows it
\* emits exactly one 'stop typing' event; each event is emitted as its signal
\* is handled, reaches every other member of the room and never the signaller.
C17_TypingThenStop ==
    [][ \A c \in Conns, username \in PayloadNames, room \in PayloadRooms :
          /\ (Typing(c, username, room) /\ ~IsTyping(c, room))
                => /\ Len(last'.emits) = 1
                   /\ last'.emits[1].ev = "typing"
                   /\ Members(room) \ {c} \subseteq last'.emits[1].to
                   /\ c \notin last'.emits[1].to
                   /\ <<c, room, last'.emits[1].to>> \in typing'
          /\ (StopTyping(c, room) /\ IsTyping(c, room))
                => /\ Len(last'.emits) = 1
                   /\ last'.emits[1].ev = "stop typing"
                   /\ Members(room) \ {c} \subseteq last'.emits[1].to
                   /\ c \notin last'.emits[1].to
                   /\ \A p \in typing' : ~(p[1] = c /\ p[2] = room) ]_vars

\* a member's 'stop typing' has reached another member of its room
C17_Witness ==
    /\ last.op = "stop typing"
    /\ last.conn \in DOMAIN users
    /\ last.emits[1].to \cap Members(users[last.conn].room) # {}
    /\ \A p \in typing : p[1] # last.conn

\* C18: a 'stop typing' signal of a connection that has no 'typing' signal
\* outstanding for the room emits no 'stop typing' event to any member of it.
C18_IdleStopSilent ==
    [][ \A c \in Conns, room \in PayloadRooms :
          (StopTyping(c, room) /\ ~IsTyping(c, room))
             => \A k \in 1..Len(last'.emits) :
                   last'.emits[k].ev = "stop typing"
                      => last'.emits[k].to \cap Members(room) = {} ]_vars

\* C19: the query of a join returns the min(50, n) most recent of the n
\* messages stored for the room, oldest first, and the join emits them as the
\* one 'chat history' event, to the joining connection and to no other.
C19_HistoryOnJoin ==
    [][ \A i \in 1..MaxPending :
          /\ (last'.op = "join:find" /\ JoinFind(i)) =>
                LET stored == { m \in store : m.room = joins[i].room }
                    h == joins'[i].messages
                    n == Cardinality(stored)
                IN  /\ Len(h) = IF n < 50 THEN n ELSE 50
                    /\ Range(h) \subseteq stored
                    /\ \A j \in 1..(Len(h) - 1) :
                          h[j].timestamp < h[j + 1].timestamp
                    /\ \A m \in stored \ Range(h) : \A j \in 1..Len(h) :
                          m.timestamp < h[j].timestamp
          /\ JoinResume(i) =>
                /\ last'.emits[1].ev = "chat history"
                /\ last'.emits[1].to \subseteq {joins[i].conn}
                /\ last'.emits[1].data = joins[i].messages
                /\ \A k \in 2..Len(last'.emits) :
                      last'.emits[k].ev # "chat history" ]_vars

\* a joiner has received 50 messages of a room for which more are stored
C19_Witness ==
    /\ last.op = "join:resume"
    /\ last.emits[1].to = {last.conn}
    /\ Len(last.emits[1].data) = 50
    /\ \E room \in Rooms :
          /\ \A j \in 1..50 : last.emits[1].data[j].room = room
          /\ Cardinality({ m \in store : m.room = room }) > 50

\* C20: no 'chat history' a join emits holds a message that the 'private
\* message' handler saved (the messages stored under a private tag).
C20_PrivateNotInHistory ==
    last.op = "join:resume"
        => \A k \in 1..Len(last.emits) :
              last.emits[k].ev = "chat history"
                 => \A j \in 1..Len(last.emits[k].data) :
                       last.emits[k].data[j].room
                          \notin { PrivateRoom(id) : id \in 1..MaxIds }

\* C21: the disconnect of a connection with a session emits exactly one 'user
\* left' and removes the session; from then on the connection has no session
\* and no step of its suspended handlers emits another 'user left'.
C21_CleanupOnce ==
    [][ \A c \in Conns :
          /\ (Disconnect(c) /\ c \in DOMAIN users)
                => /\ Cardinality({ k \in 1..Len(last'.emits) :
                                      last'.emits[k].ev = "user left" }) = 1
                   /\ c \notin DOMAIN users'
          /\ status[c] = "closed"
                => /\ c \notin DOMAIN users
                   /\ c \notin DOMAIN users'
                   /\ last'.conn = c
                         => \A k \in 1..Len(last'.emits) :
                               last'.emits[k].ev # "user left" ]_vars

\* a connection with a session has disconnected while a message it sent and a
\* join it sent are suspended at the store
C21_Witness ==
    /\ last.op = "disconnect"
    /\ last.emits # << >>
    /\ \E i \in 1..Len(chats) : chats[i].conn = last.conn
    /\ \E i \in 1..Len(joins) : joins[i].conn = last.conn

\* C22: a step that emits an error emits that one event, to the connection
\* whose event it handles and to no other, and changes nothing: the registry,
\* the rooms, the suspended handlers and the collection stay as they are and
\* the connection stays open.  A valid join or message of that connection
\* handled next is accepted as usual.
C22_ErrorsLocal ==
    [][ /\ (\E k \in 1..Len(last'.emits) : last'.emits[k].ev = "error")
              => /\ IsError(last'.emits, last'.conn)
                 /\ status'[last'.conn] = "open"
                 /\ UNCHANGED <<status, users, rooms, joins, chats, privs,
                                store, nextId, clock>>
        /\ \A c \in Conns, room \in PayloadRooms :
              (IsError(last.emits, c) /\ JoinStart(c, "alice", room))
                 => /\ c \in DOMAIN users'
                    /\ users'[c].room = room
                    /\ room \in rooms'[c]
        /\ \A c \in Conns, room \in PayloadRooms :
              (/\ IsError(last.emits, c)
               /\ ChatStart(c, << <<"x", 500>> >>, room, "alice"))
                 => /\ Len(chats') = Len(chats) + 1
                    /\ last'.emits = << >> ]_vars

\* 'User not found' answered to a connection whose join is suspended at the
\* store, while both connections have a session
C22_Witness ==
    /\ last.op = "private message"
    /\ IsError(last.emits, last.conn)
    /\ Cardinality(DOMAIN users) = 2
    /\ \E i \in 1..Len(joins) : joins[i].conn = last.conn

\* C23: the effects of the joins of one connection are emitted in the order
\* the joins were sent, so that when the last suspended join of an open
\* connection emits its 'chat history', 'user joined' and 'user list', they
\* are those of the connection's current room.
C23_LastHistoryIsCurrentRoom ==
    [][ \A i \in 1..MaxPending :
          (/\ JoinResume(i)
           /\ status[joins[i].conn] = "open"
           /\ \A j \in 1..Len(joins') : joins'[j].conn # joins[i].conn)
             => joins[i].room = users[joins[i].conn].room ]_vars

\* C24: a timeout that was set before the latest 'typing' signal of its client
\* sends no 'stop typing' to the other sockets of the room.
C24_StaleTimerSilent ==
    [][ \A c \in Conns :
          (Timeout(c) /\ Head(timers[c]) = "stale")
             => \A k \in 1..Len(last'.emits) :
                   last'.emits[k].ev = "stop typing" => last'.emits[k].to = {} ]_vars

\* C25: once no join and no chat message is suspended at the store, the chat
\* view of an open connection that has joined one room only holds every stored
\* message of that room, and holds no message twice.
C25_ViewExactlyOnce ==
    \A c \in Conns :
       (/\ joins = << >>
        /\ chats = << >>
        /\ status[c] = "open"
        /\ c \in DOMAIN users
        /\ rooms[c] = {users[c].room})
          => /\ \A m \in store :
                   m.room = users[c].room
                      => \E j \in 1..Len(view[c]) : view[c][j] = m.timestamp
             /\ \A j, k \in 1..Len(view[c]) :
                   view[c][j] = view[c][k] => j = k

\* C26: the continuation of a join whose connection has been disconnected
\* sends no 'user joined' notice to any socket.
C26_NoJoinedAfterDisconnect ==
    (last.op = "join:resume" /\ status[last.conn] = "closed")
       => \A k \in 1..Len(last.emits) :
             last.emits[k].ev = "user joined" => last.emits[k].to = {}
====
